---- MODULE Spec2Model ----
(***************************************************************************)
(* Model of condition.go (package dbr): the predicate constructors Eq,     *)
(* Neq, Gt, Gte, Lt, Lte, Like, NotLike and the combinators And, Or,       *)
(* rendered into a Buffer (text plus bound values) for a Dialect.          *)
(*                                                                         *)
(* Text is a sequence of one-character strings.  A Go value (interface{})  *)
(* is a record                                                             *)
(*   ptr   : number of pointer levels in front of the base value           *)
(*   null  : TRUE when the innermost of these pointers is a nil pointer    *)
(*   kind  : reflect.Kind of the base value ("Nil" = untyped nil)          *)
(*   elem  : reflect.Kind of a slice's or array's element type             *)
(*   exact : for a slice, whether its dynamic type is the unnamed type     *)
(*           []<elem> (so that a type assertion to []rune succeeds)        *)
(*   items : the bytes of a string, the elements of a slice or array, or   *)
(*           the one number of an Int/Bool                                 *)
(***************************************************************************)
EXTENDS Integers, Sequences, FiniteSets, TLC

VARIABLES d, tree, buf, stack, ret, status, calls, runs, first

vars == <<d, tree, buf, stack, ret, status, calls, runs, first>>

(***************************************************************************)
(* Bounds                                                                  *)
(***************************************************************************)
MaxLen == 2
MaxPtr == 2
MaxNodes == 3
MaxRuns == 2

(***************************************************************************)
(* Generic helpers                                                         *)
(***************************************************************************)
RECURSIVE SeqsUpTo(_, _)
SeqsUpTo(S, n) ==
  IF n = 0 THEN {<<>>}
  ELSE LET shorter == SeqsUpTo(S, n - 1)
       IN shorter \cup {Append(s, e) : s \in shorter, e \in S}

RECURSIVE Flatten(_)
Flatten(ss) == IF ss = <<>> THEN <<>> ELSE Head(ss) \o Flatten(Tail(ss))

(***************************************************************************)
(* Go values                                                               *)
(***************************************************************************)
Val(k, e, x, it) == [ptr |-> 0, null |-> FALSE, kind |-> k, elem |-> e, exact |-> x, items |-> it]

NilValue == Val("Nil", "", FALSE, <<>>)

StringBytes == {97, 37}
Uint8Elems == {97, 255}
Int32Elems == {97, 233, -1}
IntElems == {1, 2}

BaseValues ==
  {NilValue}
  \cup {Val("String", "", FALSE, s) : s \in SeqsUpTo(StringBytes, MaxLen)}
  \cup {Val("Int", "", FALSE, <<42>>), Val("Bool", "", FALSE, <<1>>), Val("Struct", "", FALSE, <<>>)}
  \cup {Val("Slice", "Uint8", x, s) : x \in BOOLEAN, s \in SeqsUpTo(Uint8Elems, MaxLen)}
  \cup {Val("Slice", "Int32", x, s) : x \in BOOLEAN, s \in SeqsUpTo(Int32Elems, MaxLen)}
  \cup {Val("Slice", "Int", x, s) : x \in BOOLEAN, s \in SeqsUpTo(IntElems, MaxLen)}
  \cup {Val("Slice", "String", TRUE, s) : s \in SeqsUpTo({1}, MaxLen)}
  \cup {Val("Array", "Int32", FALSE, s) : s \in SeqsUpTo({97}, MaxLen)}

\* n pointer levels in front of b (a pointer to an untyped nil is a
\* *interface{} whose interface holds nil)
PtrTo(n, b) == [b EXCEPT !.ptr = n]

\* n pointer levels, the innermost being a nil pointer
NullPtr(n) == [NilValue EXCEPT !.ptr = n, !.null = TRUE]

\* the values that pointers point to: one of each shape
PointerTargets ==
  { NilValue,
    Val("String", "", FALSE, <<97>>),
    Val("Int", "", FALSE, <<42>>),
    Val("Struct", "", FALSE, <<>>),
    Val("Slice", "Uint8", TRUE, <<97>>),
    Val("Slice", "Int32", TRUE, <<233>>),
    Val("Slice", "Int32", FALSE, <<97>>),
    Val("Slice", "Int", TRUE, <<>>),
    Val("Slice", "Int", TRUE, <<1>>) }

Values ==
  BaseValues
  \cup {PtrTo(n, b) : n \in 1..MaxPtr, b \in PointerTargets}
  \cup {NullPtr(n) : n \in 1..MaxPtr}

\* value == nil
IsNil(v) == v.ptr = 0 /\ v.kind = "Nil"

\* reflect.ValueOf(value).Kind()
Kind(v) == IF v.ptr > 0 THEN "Ptr" ELSE v.kind

\* whether reflect.ValueOf(value).Elem() is the zero reflect.Value
ElemIsZero(v) == v.ptr = 1 /\ v.null

\* reflect.ValueOf(value).Elem().Interface(), for a non-zero Elem()
Elem(v) == [v EXCEPT !.ptr = v.ptr - 1]

\* the UTF-8 encoding of one rune, as string([]rune) produces it
EncodeRune(r) ==
  IF r < 0 \/ r > 1114111 \/ (r >= 55296 /\ r <= 57343) THEN <<239, 191, 189>>
  ELSE IF r < 128 THEN <<r>>
  ELSE IF r < 2048 THEN <<192 + (r \div 64), 128 + (r % 64)>>
  ELSE IF r < 65536 THEN <<224 + (r \div 4096), 128 + ((r \div 64) % 64), 128 + (r % 64)>>
  ELSE <<240 + (r \div 262144), 128 + ((r \div 4096) % 64), 128 + ((r \div 64) % 64), 128 + (r % 64)>>

\* string(value.([]rune))
RunesToString(v) == Val("String", "", FALSE, Flatten([i \in 1..Len(v.items) |-> EncodeRune(v.items[i])]))

(***************************************************************************)
(* Dialect and Buffer                                                      *)
(***************************************************************************)
Dialects == {"mysql", "postgres"}

\* the grave accent cannot be written in a TLA+ string; "BQ" stands for it
QuoteIdent(dl, column) ==
  IF dl = "mysql" THEN <<"BQ">> \o column \o <<"BQ">> ELSE <<"\"">> \o column \o <<"\"">>

EncodeBool(dl, b) ==
  IF dl = "mysql" THEN (IF b THEN <<"1">> ELSE <<"0">>)
  ELSE (IF b THEN <<"T", "R", "U", "E">> ELSE <<"F", "A", "L", "S", "E">>)

placeholder == <<"?">>

EmptyBuffer == [text |-> <<>>, values |-> <<>>]

WriteString(b, s) == [b EXCEPT !.text = b.text \o s]

WriteValue(b, v) == [b EXCEPT !.values = Append(b.values, v)]

\* the outcome of one Build call: the buffer after it, and how it ended
\* ("nil", "ErrColumnNotSpecified", or "panic" when the call does not return)
Outcome(b, e) == [buf |-> b, err |-> e]

(***************************************************************************)
(* Predicate constructors                                                  *)
(***************************************************************************)
\* buildCmp without its buf.WriteValue(value)
buildCmpWithoutValue(dl, b, pred, column, value) ==
  Outcome(WriteString(b, QuoteIdent(dl, column) \o <<" ">> \o pred \o <<" ">> \o placeholder), "nil")

buildCmp(dl, b, pred, column, value) ==
  LET b1 == WriteString(b, QuoteIdent(dl, column))
      b2 == WriteString(b1, <<" ">>)
      b3 == WriteString(b2, pred)
      b4 == WriteString(b3, <<" ">>)
      b5 == WriteString(b4, placeholder)
  IN Outcome(WriteValue(b5, value), "nil")

\* Eq without its v.Len() == 0 case
EqEmptyAsIn(dl, b, column, value) ==
  IF IsNil(value)
    THEN Outcome(WriteString(WriteString(b, QuoteIdent(dl, column)), <<" ", "I", "S", " ", "N", "U", "L", "L">>), "nil")
  ELSE IF Kind(value) = "Slice" THEN buildCmp(dl, b, <<"I", "N">>, column, value)
  ELSE buildCmp(dl, b, <<"=">>, column, value)

Eq(dl, b, column, value) ==
  IF IsNil(value)
    THEN Outcome(WriteString(WriteString(b, QuoteIdent(dl, column)), <<" ", "I", "S", " ", "N", "U", "L", "L">>), "nil")
  ELSE IF Kind(value) = "Slice"
    THEN IF Len(value.items) = 0
           THEN Outcome(WriteString(b, EncodeBool(dl, FALSE)), "nil")
           ELSE buildCmp(dl, b, <<"I", "N">>, column, value)
  ELSE buildCmp(dl, b, <<"=">>, column, value)

\* Neq with Eq's literal for the empty slice
NeqEmptyAsFalse(dl, b, column, value) ==
  IF IsNil(value)
    THEN Outcome(WriteString(WriteString(b, QuoteIdent(dl, column)),
                             <<" ", "I", "S", " ", "N", "O", "T", " ", "N", "U", "L", "L">>), "nil")
  ELSE IF Kind(value) = "Slice"
    THEN IF Len(value.items) = 0
           THEN Outcome(WriteString(b, EncodeBool(dl, FALSE)), "nil")
           ELSE buildCmp(dl, b, <<"N", "O", "T", " ", "I", "N">>, column, value)
  ELSE buildCmp(dl, b, <<"!", "=">>, column, value)

Neq(dl, b, column, value) ==
  IF IsNil(value)
    THEN Outcome(WriteString(WriteString(b, QuoteIdent(dl, column)),
                             <<" ", "I", "S", " ", "N", "O", "T", " ", "N", "U", "L", "L">>), "nil")
  ELSE IF Kind(value) = "Slice"
    THEN IF Len(value.items) = 0
           THEN Outcome(WriteString(b, EncodeBool(dl, TRUE)), "nil")
           ELSE buildCmp(dl, b, <<"N", "O", "T", " ", "I", "N">>, column, value)
  ELSE buildCmp(dl, b, <<"!", "=">>, column, value)

Gt(dl, b, column, value) == buildCmp(dl, b, <<">">>, column, value)

\* Gte with Gt's operator
GteAsGt(dl, b, column, value) == buildCmp(dl, b, <<">">>, column, value)

Gte(dl, b, column, value) == buildCmp(dl, b, <<">", "=">>, column, value)

Lt(dl, b, column, value) == buildCmp(dl, b, <<"<">>, column, value)

Lte(dl, b, column, value) == buildCmp(dl, b, <<"<", "=">>, column, value)

RECURSIVE buildLikeCmp(_, _, _, _, _)
buildLikeCmp(dl, b, pred, column, value) ==
  IF IsNil(value) THEN Outcome(b, "ErrColumnNotSpecified")
  ELSE CASE Kind(value) = "String" -> buildCmp(dl, b, pred, column, value)
         [] Kind(value) = "Ptr" ->
              \* Interface() of the zero reflect.Value panics
              IF ElemIsZero(value) THEN Outcome(b, "panic")
              ELSE buildLikeCmp(dl, b, pred, column, Elem(value))
         [] Kind(value) = "Slice" /\ value.elem = "Uint8" -> buildCmp(dl, b, pred, column, value)
         [] Kind(value) = "Slice" /\ value.elem = "Int32" ->
              \* the type assertion value.([]rune) panics for any other dynamic type
              IF value.exact THEN buildCmp(dl, b, pred, column, RunesToString(value))
              ELSE Outcome(b, "panic")
         [] OTHER -> Outcome(b, "ErrColumnNotSpecified")

Like(dl, b, column, value) == buildLikeCmp(dl, b, <<"L", "I", "K", "E">>, column, value)

NotLike(dl, b, column, value) ==
  buildLikeCmp(dl, b, <<"N", "O", "T", " ", "L", "I", "K", "E">>, column, value)

(***************************************************************************)
(* Builders: a predicate holds a column and a value, And/Or hold their     *)
(* conditions                                                              *)
(***************************************************************************)
PredicateOps == {"Eq", "Neq", "Gt", "Gte", "Lt", "Lte", "Like", "NotLike"}

Columns == {<<"a">>, <<"i", "d">>}

Predicate(op, column, value) == [op |-> op, column |-> column, value |-> value, cond |-> <<>>]

And(cond) == [op |-> "And", column |-> <<>>, value |-> NilValue, cond |-> cond]

Or(cond) == [op |-> "Or", column |-> <<>>, value |-> NilValue, cond |-> cond]

IsCond(n) == n.op \in {"And", "Or"}

\* the Build method of a predicate (the closure its constructor returns)
BuildPredicate(dl, b, n) ==
  CASE n.op = "Eq" -> Eq(dl, b, n.column, n.value)
    [] n.op = "Neq" -> Neq(dl, b, n.column, n.value)
    [] n.op = "Gt" -> Gt(dl, b, n.column, n.value)
    [] n.op = "Gte" -> Gte(dl, b, n.column, n.value)
    [] n.op = "Lt" -> Lt(dl, b, n.column, n.value)
    [] n.op = "Lte" -> Lte(dl, b, n.column, n.value)
    [] n.op = "Like" -> Like(dl, b, n.column, n.value)
    [] n.op = "NotLike" -> NotLike(dl, b, n.column, n.value)

\* the keyword And and Or pass to buildCond
CondPred(n) == IF n.op = "And" THEN <<"A", "N", "D">> ELSE <<"O", "R">>

AllPredicates == {Predicate(op, c, v) : op \in PredicateOps, c \in Columns, v \in Values}

\* the predicates used as conditions of And/Or
CondPredicates ==
  { Predicate("Eq", <<"a">>, Val("Int", "", FALSE, <<42>>)),
    Predicate("Neq", <<"i", "d">>, Val("Slice", "Int", TRUE, <<>>)),
    Predicate("Lte", <<"i", "d">>, NilValue),
    Predicate("Like", <<"a">>, Val("String", "", FALSE, <<97, 37>>)),
    Predicate("NotLike", <<"i", "d">>, Val("Int", "", FALSE, <<42>>)),
    Predicate("Like", <<"a">>, NullPtr(1)) }

\* the builder trees of exactly n nodes, and the condition lists of n nodes in total
RECURSIVE TreesOfSize(_), CondsOfSize(_)
TreesOfSize(n) ==
  (IF n = 1 THEN CondPredicates ELSE {})
  \cup {And(c) : c \in CondsOfSize(n - 1)}
  \cup {Or(c) : c \in CondsOfSize(n - 1)}

CondsOfSize(m) ==
  IF m = 0 THEN {<<>>}
  ELSE UNION { {<<t>> \o c : t \in TreesOfSize(j), c \in CondsOfSize(m - j)} : j \in 1..m }

Builders == AllPredicates \cup UNION {TreesOfSize(n) : n \in 1..MaxNodes}

RECURSIVE NodeAt(_, _)
NodeAt(n, path) == IF path = <<>> THEN n ELSE NodeAt(n.cond[Head(path)], Tail(path))

(***************************************************************************)
(* buildCond, split at the call of a condition's Build                     *)
(***************************************************************************)
\* lines 9-14: what the loop body writes before it calls condition i (0-based)
\* buildCond without its i > 0 test
buildCondOpenAlwaysSeparates(b, pred, i) ==
  WriteString(WriteString(WriteString(WriteString(b, <<" ">>), pred), <<" ">>), <<"(">>)

buildCondOpen(b, pred, i) ==
  LET b1 == IF i > 0 THEN WriteString(WriteString(WriteString(b, <<" ">>), pred), <<" ">>) ELSE b
  IN WriteString(b1, <<"(">>)

\* buildCond without its closing parenthesis
buildCondCloseMissing(b) == b

\* line 19: what the loop body writes after the condition returned nil
buildCondClose(b) == WriteString(b, <<")">>)

(***************************************************************************)
(* The render of a builder tree: a stack of Build calls.  A frame is the   *)
(* path of its builder in the tree, the loop index i of buildCond and the  *)
(* index of its record in calls.  calls records every Build that was       *)
(* invoked, in order, with the buffer's lengths at its call and return.    *)
(***************************************************************************)
Frame(path, call) == [path |-> path, i |-> 0, call |-> call]

Called(path, b) ==
  [path |-> path, t0 |-> Len(b.text), v0 |-> Len(b.values), t1 |-> -1, v1 |-> -1, err |-> "pending"]

Returned(cs, k, b, e) ==
  [cs EXCEPT ![k].t1 = Len(b.text), ![k].v1 = Len(b.values), ![k].err = e]

Result(e, b) == [err |-> e, buf |-> b]

NoResult == Result("none", EmptyBuffer)

Top == stack[Len(stack)]

TopNode == NodeAt(tree, Top.path)

Pop == SubSeq(stack, 1, Len(stack) - 1)

TypeOK ==
  /\ d \in Dialects
  /\ tree \in Builders
  /\ status \in {"idle", "running", "nil", "ErrColumnNotSpecified", "panic"}
  /\ ret \in {"none", "nil", "ErrColumnNotSpecified"}
  /\ runs \in 0..MaxRuns
  /\ Len(buf.values) <= MaxNodes
  /\ Len(stack) <= MaxNodes

Init ==
  /\ d \in Dialects
  /\ tree \in Builders
  /\ buf = EmptyBuffer
  /\ stack = <<>>
  /\ ret = "none"
  /\ status = "idle"
  /\ calls = <<>>
  /\ runs = 0
  /\ first = NoResult

\* the caller renders the tree into a fresh buffer: tree.Build(d, buf)
Render ==
  /\ status # "running"
  /\ runs < MaxRuns
  /\ status' = "running"
  /\ buf' = EmptyBuffer
  /\ calls' = <<Called(<<>>, EmptyBuffer)>>
  /\ stack' = <<Frame(<<>>, 1)>>
  /\ ret' = "none"
  /\ UNCHANGED <<d, tree, runs, first>>

\* a predicate whose Build clears the value it closes over
PredicateBuildConsumesValue ==
  /\ status = "running"
  /\ stack # <<>>
  /\ ret = "none"
  /\ ~IsCond(TopNode)
  /\ LET out == BuildPredicate(d, buf, TopNode)
     IN IF out.err = "panic"
          THEN /\ status' = "panic"
               /\ stack' = <<>>
               /\ runs' = runs + 1
               /\ first' = IF runs = 0 THEN Result("panic", buf) ELSE first
               /\ UNCHANGED <<buf, calls, ret>>
          ELSE /\ buf' = out.buf
               /\ stack' = Pop
               /\ ret' = out.err
               /\ calls' = Returned(calls, Top.call, out.buf, out.err)
               /\ UNCHANGED <<status, runs, first>>
  /\ tree' = IF Top.path = <<>> THEN [tree EXCEPT !.value = NilValue] ELSE tree
  /\ UNCHANGED d

\* the Build of a predicate runs; a panic unwinds every frame
PredicateBuild ==
  /\ status = "running"
  /\ stack # <<>>
  /\ ret = "none"
  /\ ~IsCond(TopNode)
  /\ LET out == BuildPredicate(d, buf, TopNode)
     IN IF out.err = "panic"
          THEN /\ status' = "panic"
               /\ stack' = <<>>
               /\ runs' = runs + 1
               /\ first' = IF runs = 0 THEN Result("panic", buf) ELSE first
               /\ UNCHANGED <<buf, calls, ret>>
          ELSE /\ buf' = out.buf
               /\ stack' = Pop
               /\ ret' = out.err
               /\ calls' = Returned(calls, Top.call, out.buf, out.err)
               /\ UNCHANGED <<status, runs, first>>
  /\ UNCHANGED <<d, tree>>

\* buildCond, lines 8-15: separator, "(" and the call c.Build(d, buf)
buildCondCall ==
  /\ status = "running"
  /\ stack # <<>>
  /\ ret = "none"
  /\ IsCond(TopNode)
  /\ Top.i < Len(TopNode.cond)
  /\ LET b == buildCondOpen(buf, CondPred(TopNode), Top.i)
         path == Append(Top.path, Top.i + 1)
     IN /\ buf' = b
        /\ calls' = Append(calls, Called(path, b))
        /\ stack' = Append(stack, Frame(path, Len(calls) + 1))
  /\ UNCHANGED <<d, tree, ret, status, runs, first>>

\* buildCond closing the parenthesis before it returns the error
buildCondReturnedClosesOnError ==
  /\ status = "running"
  /\ stack # <<>>
  /\ ret # "none"
  /\ IF ret # "nil"
       THEN /\ buf' = buildCondClose(buf)
            /\ stack' = Pop
            /\ calls' = Returned(calls, Top.call, buildCondClose(buf), ret)
            /\ UNCHANGED ret
       ELSE /\ buf' = buildCondClose(buf)
            /\ stack' = [stack EXCEPT ![Len(stack)].i = Top.i + 1]
            /\ ret' = "none"
            /\ UNCHANGED calls
  /\ UNCHANGED <<d, tree, status, runs, first>>

\* buildCond, lines 16-19: the condition returned
buildCondReturned ==
  /\ status = "running"
  /\ stack # <<>>
  /\ ret # "none"
  /\ IF ret # "nil"
       THEN /\ stack' = Pop
            /\ calls' = Returned(calls, Top.call, buf, ret)
            /\ UNCHANGED <<buf, ret>>
       ELSE /\ buf' = buildCondClose(buf)
            /\ stack' = [stack EXCEPT ![Len(stack)].i = Top.i + 1]
            /\ ret' = "none"
            /\ UNCHANGED calls
  /\ UNCHANGED <<d, tree, status, runs, first>>

\* buildCond, line 21: the loop is over
buildCondDone ==
  /\ status = "running"
  /\ stack # <<>>
  /\ ret = "none"
  /\ IsCond(TopNode)
  /\ Top.i = Len(TopNode.cond)
  /\ stack' = Pop
  /\ ret' = "nil"
  /\ calls' = Returned(calls, Top.call, buf, "nil")
  /\ UNCHANGED <<d, tree, buf, status, runs, first>>

\* the outermost Build returns to the caller
Return ==
  /\ status = "running"
  /\ stack = <<>>
  /\ ret # "none"
  /\ status' = ret
  /\ runs' = runs + 1
  /\ first' = IF runs = 0 THEN Result(ret, buf) ELSE first
  /\ UNCHANGED <<d, tree, buf, stack, ret, calls>>

Next ==
  \/ Render
  \/ PredicateBuild
  \/ buildCondCall
  \/ buildCondReturned
  \/ buildCondDone
  \/ Return

Spec == Init /\ [][Next]_vars

(***************************************************************************)
(* What the calls of one render wrote                                      *)
(***************************************************************************)
CallNode(k) == NodeAt(tree, calls[k].path)

HasReturned(k) == calls[k].err # "pending"

\* the text and the bound values appended between the call and the return of call k
TextOf(k) == SubSeq(buf.text, calls[k].t0 + 1, calls[k].t1)

ValuesOf(k) == SubSeq(buf.values, calls[k].v0 + 1, calls[k].v1)

\* a panic comes from the Build that was invoked last
Panicked(k) == status = "panic" /\ k = Len(calls)

\* the shapes of a value, in the words of the claims
IsSequence(v) == v.ptr = 0 /\ v.kind = "Slice"

CmpText(column, op) == QuoteIdent(d, column) \o <<" ">> \o op \o <<" ">> \o placeholder

(***************************************************************************)
(* C1: a render of Eq(c, v) never fails and appends exactly: for nil v the *)
(* text `<quoted c> IS NULL` and no value; for a sequence of 0 elements    *)
(* the dialect's false literal and no value; for a sequence of 1 or more   *)
(* elements `<quoted c> IN ?` and the one value v; for any other v         *)
(* `<quoted c> = ?` and the one value v.                                   *)
(***************************************************************************)
EqRendersByShape ==
  \A k \in 1..Len(calls) :
    LET c == CallNode(k).column
        v == CallNode(k).value
    IN CallNode(k).op = "Eq" =>
         /\ ~Panicked(k)
         /\ HasReturned(k) =>
              /\ calls[k].err = "nil"
              /\ IsNil(v) =>
                   /\ TextOf(k) = QuoteIdent(d, c) \o <<" ", "I", "S", " ", "N", "U", "L", "L">>
                   /\ ValuesOf(k) = <<>>
              /\ IsSequence(v) /\ Len(v.items) = 0 =>
                   /\ TextOf(k) = EncodeBool(d, FALSE)
                   /\ ValuesOf(k) = <<>>
              /\ IsSequence(v) /\ Len(v.items) >= 1 =>
                   /\ TextOf(k) = CmpText(c, <<"I", "N">>)
                   /\ ValuesOf(k) = <<v>>
              /\ ~IsNil(v) /\ ~IsSequence(v) =>
                   /\ TextOf(k) = CmpText(c, <<"=">>)
                   /\ ValuesOf(k) = <<v>>

EqRenderedIn ==
  \E k \in 1..Len(calls) :
    /\ CallNode(k).op = "Eq"
    /\ HasReturned(k)
    /\ IsSequence(CallNode(k).value)
    /\ Len(CallNode(k).value.items) >= 1

(***************************************************************************)
(* C2: a render of Neq(c, v) never fails and mirrors Eq: nil gives         *)
(* `<quoted c> IS NOT NULL` and no value; a sequence of 0 elements the     *)
(* dialect's true literal and no value; a sequence of 1 or more elements   *)
(* `<quoted c> NOT IN ?` and the one value v; any other v                  *)
(* `<quoted c> != ?` and the one value v.                                  *)
(***************************************************************************)
NeqRendersByShape ==
  \A k \in 1..Len(calls) :
    LET c == CallNode(k).column
        v == CallNode(k).value
    IN CallNode(k).op = "Neq" =>
         /\ ~Panicked(k)
         /\ HasReturned(k) =>
              /\ calls[k].err = "nil"
              /\ IsNil(v) =>
                   /\ TextOf(k) = QuoteIdent(d, c)
                                    \o <<" ", "I", "S", " ", "N", "O", "T", " ", "N", "U", "L", "L">>
                   /\ ValuesOf(k) = <<>>
              /\ IsSequence(v) /\ Len(v.items) = 0 =>
                   /\ TextOf(k) = EncodeBool(d, TRUE)
                   /\ ValuesOf(k) = <<>>
              /\ IsSequence(v) /\ Len(v.items) >= 1 =>
                   /\ TextOf(k) = CmpText(c, <<"N", "O", "T", " ", "I", "N">>)
                   /\ ValuesOf(k) = <<v>>
              /\ ~IsNil(v) /\ ~IsSequence(v) =>
                   /\ TextOf(k) = CmpText(c, <<"!", "=">>)
                   /\ ValuesOf(k) = <<v>>

NeqRenderedEmptySequence ==
  \E k \in 1..Len(calls) :
    /\ CallNode(k).op = "Neq"
    /\ HasReturned(k)
    /\ IsSequence(CallNode(k).value)
    /\ Len(CallNode(k).value.items) = 0

(***************************************************************************)
(* C9: a render of Gt, Gte, Lt or Lte(c, v) appends exactly                *)
(* `<quoted c> <op> ?` with op >, >=, <, <= and the one bound value v,     *)
(* and returns no error, whatever the shape of v.                          *)
(***************************************************************************)
OrderingOp(op) ==
  CASE op = "Gt" -> <<">">>
    [] op = "Gte" -> <<">", "=">>
    [] op = "Lt" -> <<"<">>
    [] op = "Lte" -> <<"<", "=">>

OrderingRendersUnconditionally ==
  \A k \in 1..Len(calls) :
    CallNode(k).op \in {"Gt", "Gte", "Lt", "Lte"} =>
      /\ ~Panicked(k)
      /\ HasReturned(k) =>
           /\ calls[k].err = "nil"
           /\ TextOf(k) = CmpText(CallNode(k).column, OrderingOp(CallNode(k).op))
           /\ ValuesOf(k) = <<CallNode(k).value>>

OrderingRenderedSequence ==
  \E k \in 1..Len(calls) :
    /\ CallNode(k).op = "Gte"
    /\ HasReturned(k)
    /\ IsSequence(CallNode(k).value)
    /\ Len(CallNode(k).value.items) = 0

(***************************************************************************)
(* C6: a render of Like or NotLike(c, v) has exactly these outcomes: nil   *)
(* v fails with ErrColumnNotSpecified; a text v appends `<quoted c> LIKE ?`*)
(* (resp. NOT LIKE) and binds v; a non-null pointer is dispatched on the   *)
(* value it points to; a byte sequence binds v itself; a rune sequence     *)
(* binds the text it converts to; any other sequence or scalar fails with  *)
(* ErrColumnNotSpecified; a failure appends nothing.  (Pointer chains that *)
(* end in a null pointer are the subject of C7 and are left out here.)     *)
(***************************************************************************)
LikeOp(op) == IF op = "Like" THEN <<"L", "I", "K", "E">> ELSE <<"N", "O", "T", " ", "L", "I", "K", "E">>

\* the value a pointer chain leads to
Pointee(v) == [v EXCEPT !.ptr = 0]

\* the value the claim has Like bind for v, or NilValue where it has Like fail
LikeBinds(v) ==
  LET w == Pointee(v)
  IN CASE w.kind = "String" -> w
       [] w.kind = "Slice" /\ w.elem = "Uint8" -> w
       [] w.kind = "Slice" /\ w.elem = "Int32" -> RunesToString(w)
       [] OTHER -> NilValue

LikeOutcomesByShape ==
  \A k \in 1..Len(calls) :
    LET n == CallNode(k)
    IN n.op \in {"Like", "NotLike"} /\ ~n.value.null =>
         /\ ~Panicked(k)
         /\ HasReturned(k) =>
              IF LikeBinds(n.value) = NilValue
                THEN /\ calls[k].err = "ErrColumnNotSpecified"
                     /\ TextOf(k) = <<>>
                     /\ ValuesOf(k) = <<>>
                ELSE /\ calls[k].err = "nil"
                     /\ TextOf(k) = CmpText(n.column, LikeOp(n.op))
                     /\ ValuesOf(k) = <<LikeBinds(n.value)>>

(***************************************************************************)
(* C7: a render of Like or NotLike(c, p), where p is a null pointer or     *)
(* leads through pointers to a null value, returns ErrColumnNotSpecified   *)
(* as an ordinary error (it does not panic) and appends nothing.           *)
(***************************************************************************)
LeadsToNull(v) == v.ptr > 0 /\ (v.null \/ v.kind = "Nil")

LikeNullPointerReturnsError ==
  \A k \in 1..Len(calls) :
    CallNode(k).op \in {"Like", "NotLike"} /\ LeadsToNull(CallNode(k).value) =>
      /\ ~Panicked(k)
      /\ HasReturned(k) =>
           /\ calls[k].err = "ErrColumnNotSpecified"
           /\ TextOf(k) = <<>>
           /\ ValuesOf(k) = <<>>

(***************************************************************************)
(* C3: when all its n >= 0 conditions render without error, And(...)       *)
(* (resp. Or(...)) returns no error and appends `(` child_1 `)` and, for   *)
(* each later child, ` AND ` (resp. ` OR `) and `(` child_i `)`, with no   *)
(* separator before the first or after the last child and nothing at all   *)
(* for n = 0; recursively for nested And/Or.                               *)
(***************************************************************************)
\* whether every predicate below n renders without error
RECURSIVE RendersOk(_)
RendersOk(n) ==
  IF IsCond(n) THEN \A i \in 1..Len(n.cond) : RendersOk(n.cond[i])
  ELSE BuildPredicate(d, EmptyBuffer, n).err = "nil"

\* the text and the values the claim has a builder append
RECURSIVE JoinedText(_), JoinedValues(_)
JoinedText(n) ==
  IF IsCond(n)
    THEN Flatten([i \in 1..Len(n.cond) |->
                    (IF i = 1 THEN <<>>
                     ELSE IF n.op = "And" THEN <<" ", "A", "N", "D", " ">> ELSE <<" ", "O", "R", " ">>)
                    \o <<"(">> \o JoinedText(n.cond[i]) \o <<")">>])
    ELSE BuildPredicate(d, EmptyBuffer, n).buf.text

JoinedValues(n) ==
  IF IsCond(n) THEN Flatten([i \in 1..Len(n.cond) |-> JoinedValues(n.cond[i])])
  ELSE BuildPredicate(d, EmptyBuffer, n).buf.values

CondJoinsChildren ==
  /\ \A k \in 1..Len(calls) :
       IsCond(CallNode(k)) /\ RendersOk(CallNode(k)) /\ HasReturned(k) =>
         /\ calls[k].err = "nil"
         /\ TextOf(k) = JoinedText(CallNode(k))
         /\ ValuesOf(k) = JoinedValues(CallNode(k))
  /\ IsCond(tree) /\ RendersOk(tree) => status \in {"idle", "running", "nil"}

CondJoinedTwo ==
  /\ status = "nil"
  /\ IsCond(tree)
  /\ Len(tree.cond) >= 2
  /\ Len(buf.values) >= 2

(***************************************************************************)
(* C4: when child k is the first child of And/Or whose render returns an   *)
(* error, the combinator returns that error, no later child is rendered,   *)
(* nothing more is appended to the buffer after child k returned, and the  *)
(* children before k were each rendered exactly once, in order.            *)
(***************************************************************************)
CallsAt(path) == {k \in 1..Len(calls) : calls[k].path = path}

IsError(e) == e \notin {"pending", "nil"}

CondShortCircuits ==
  /\ \A k \in 1..Len(calls) : \A j \in 1..Len(CallNode(k).cond) :
       \A cj \in CallsAt(Append(calls[k].path, j)) :
         IsError(calls[cj].err) =>
           \* the error is the combinator's result
           /\ calls[k].err \in {"pending", calls[cj].err}
           /\ ret # "nil"
           /\ status \in {"running", calls[cj].err}
           \* no later sibling was invoked
           /\ \A l \in (j + 1)..Len(CallNode(k).cond) : CallsAt(Append(calls[k].path, l)) = {}
           \* nothing was appended after the child returned
           /\ Len(buf.text) = calls[cj].t1
           /\ Len(buf.values) = calls[cj].v1
           \* the earlier siblings ran once each, in order, without error
           /\ \A i \in 1..(j - 1) :
                /\ Cardinality(CallsAt(Append(calls[k].path, i))) = 1
                /\ \A ci \in CallsAt(Append(calls[k].path, i)) :
                     /\ calls[ci].err = "nil"
                     /\ \A cn \in CallsAt(Append(calls[k].path, i + 1)) : ci < cn
  \* no builder is rendered twice in one render
  /\ \A k1, k2 \in 1..Len(calls) : calls[k1].path = calls[k2].path => k1 = k2

CondShortCircuited ==
  /\ status = "ErrColumnNotSpecified"
  /\ IsCond(tree)
  /\ Len(tree.cond) >= 2
  /\ \E c \in CallsAt(<<1>>) : IsError(calls[c].err)
  /\ RendersOk(tree.cond[2])

(***************************************************************************)
(* C5: starting from an empty buffer, at every point of a render the       *)
(* number of placeholders in the text equals the number of bound values,   *)
(* the i-th placeholder and the i-th value come from the same predicate,   *)
(* and the values are in depth-first, left-to-right order of the           *)
(* predicates.                                                             *)
(***************************************************************************)
RECURSIVE Count(_, _)
Count(s, ch) == IF s = <<>> THEN 0 ELSE (IF Head(s) = ch THEN 1 ELSE 0) + Count(Tail(s), ch)

Placeholders(s) == Count(s, placeholder[1])

\* p comes before q, left to right, in the tree
RECURSIVE LeftOf(_, _)
LeftOf(p, q) ==
  /\ p # <<>>
  /\ q # <<>>
  /\ \/ Head(p) < Head(q)
     \/ Head(p) = Head(q) /\ LeftOf(Tail(p), Tail(q))

PlaceholdersMatchValues ==
  /\ Placeholders(buf.text) = Len(buf.values)
  /\ \A k \in 1..Len(calls) :
       ~IsCond(CallNode(k)) /\ HasReturned(k) =>
         \* as many placeholders as values before this predicate, and within it
         /\ Placeholders(SubSeq(buf.text, 1, calls[k].t0)) = calls[k].v0
         /\ Placeholders(TextOf(k)) = Len(ValuesOf(k))
         /\ Len(ValuesOf(k)) <= 1
  /\ \A k1, k2 \in 1..Len(calls) :
       ~IsCond(CallNode(k1)) /\ ~IsCond(CallNode(k2)) /\ HasReturned(k1) /\ HasReturned(k2)
       /\ LeftOf(calls[k1].path, calls[k2].path) =>
         /\ calls[k1].v1 <= calls[k2].v0
         /\ calls[k1].t1 <= calls[k2].t0

PlaceholdersMidRender ==
  /\ status = "running"
  /\ Len(buf.values) >= 1
  /\ \E k \in 1..Len(calls) : ~HasReturned(k)
  /\ \E k \in 1..Len(calls) : ~IsCond(CallNode(k)) /\ HasReturned(k) /\ Len(ValuesOf(k)) = 0
                              /\ calls[k].t1 > calls[k].t0

(***************************************************************************)
(* C8 (as claimed): the text one render call appends has balanced          *)
(* parentheses, whatever the call returns.                                 *)
(***************************************************************************)
RECURSIVE BalancedFrom(_, _)
BalancedFrom(s, depth) ==
  IF s = <<>> THEN depth = 0
  ELSE IF Head(s) = "(" THEN BalancedFrom(Tail(s), depth + 1)
  ELSE IF Head(s) = ")" THEN depth > 0 /\ BalancedFrom(Tail(s), depth - 1)
  ELSE BalancedFrom(Tail(s), depth)

Balanced(s) == BalancedFrom(s, 0)

ParenthesesBalancedWhateverReturned ==
  \A k \in 1..Len(calls) : HasReturned(k) => Balanced(TextOf(k))

(***************************************************************************)
(* C8 (amended): the text a render call appends has balanced parentheses   *)
(* whenever the call returns no error.                                     *)
(***************************************************************************)
ParenthesesBalancedOnSuccess ==
  \A k \in 1..Len(calls) : HasReturned(k) /\ calls[k].err = "nil" => Balanced(TextOf(k))

ParenthesesNestedOnSuccess ==
  /\ status = "nil"
  /\ \E i \in 1..(Len(buf.text) - 1) : buf.text[i] = "(" /\ buf.text[i + 1] = "("
  /\ \E i \in 1..(Len(buf.text) - 1) : buf.text[i] = ")" /\ buf.text[i + 1] = ")"

(***************************************************************************)
(* C10: rendering does not change the builder: rendering the same tree     *)
(* again into a fresh buffer gives the same result (nil, error or panic),  *)
(* the same text and the same bound values as the first render, also when  *)
(* the first render failed part-way.                                       *)
(***************************************************************************)
RenderIsRepeatable ==
  runs >= 1 /\ status # "running" => Result(status, buf) = first

RenderRepeatedAfterFailure ==
  /\ runs = 2
  /\ status = "ErrColumnNotSpecified"
  /\ first.err = "ErrColumnNotSpecified"
  /\ Len(first.buf.text) > 1
  /\ Len(first.buf.values) >= 1

====
